---- MODULE Spec2Model ----
(***************************************************************************)
(* A model of the simple_tsdb python client:                               *)
(*   - client.py      Connection (wire commands) and Client (session)      *)
(*   - push_queue.py  PushQueue (producers, flush callers, worker thread)  *)
(* SpecClient explores one Client driven by a caller and a server that may *)
(* answer anything; SpecPQ explores one PushQueue with concurrent callers. *)
(***************************************************************************)
EXTENDS Integers, Sequences, FiniteSets, TLC

VARIABLES
    \* ---- client.py: one Client object and the sockets it has opened
    credentials,   \* Client.credentials: TRUE when (username, password) given
    conn,          \* Client.conn: None or the id of the Connection it holds
    socks,         \* ids of sockets created and not closed by this process
    leaked,        \* the sockets among them that no Connection object owns
    eof,           \* ids of sockets whose peer has closed the stream
    nsock,         \* number of sockets created so far
    it,            \* the SelectOP / SumsOP object the caller holds, or NoIt
    last,          \* what the last call did (observation only)
    assert_ok,     \* FALSE once the assertion of Client.connect has failed
    wire,          \* per socket: whether it was TLS-wrapped and which kind
                   \* of command was the first sent on it (observation only)
    \* ---- push_queue.py: one PushQueue object
    push_cb,       \* PushQueue.push_cb: TRUE when a callback is configured
    queue,         \* PushQueue.queue: dict path -> points, in insertion order
    cookie_queue,  \* PushQueue.cookie_queue: dict path -> cookies
    schemas,       \* PushQueue.schemas: the (database, measurement) keys cached
    thread,        \* PushQueue.thread: None or the id of a worker thread
    running,       \* PushQueue.running
    wk,            \* the worker threads ever created: position and locals
    nwk,           \* number of worker threads created so far
    fl,            \* the threads that call flush(): position and locals
    \* ---- observation of the PushQueue (never read by the program)
    ncalls,        \* number of append / append_list calls made so far
    hist,          \* every appended point, by id: its path, its cookie and
                   \* whether the call held a cookie for it at all
    written,       \* the write_points calls that returned normally, in order
    cbs,           \* the push_cb invocations, in order
    queue_cond,    \* PushQueue.queue_cond: None or the worker that holds it
    \* ---- client.py: single objects followed step by step
    stream,        \* one SelectOP / SumsOP and the response it reads
    wp,            \* one Connection.write_points call and its wire traffic
    codec          \* one Schema with the arguments and results of its methods

None == 0

\* ------------------------------------------------------------------ bounds
MaxConns == 3      \* sockets one exploration may create
MaxResp == 4       \* frames the server sends in answer to one command
MaxChunks == 2     \* chunks of one write_points transaction
MaxCalls == 2      \* append / append_list calls in one exploration
MaxPoints == 2     \* points appended in one exploration
MaxList == 2       \* length of the list given to one append_list call
MaxFlush == 2      \* flush() calls in one exploration
MaxFail == 1       \* failed attempts counted per path (more are not counted)
MaxShort == 2      \* points of a list whose null fields are all enumerated
MaxDataLen == 2100 \* largest buffer length given to max_points_for_data_len
MaxValue == 16777216  \* timestamps and field values are kept exactly below it

\* ------------------------------------------------------------ wire tokens
\* A frame of a response is named by its data token.  DT_STATUS_CODE is
\* split by its i32 payload: zero, or one of the codes of StatusCode.
\* "ITEM" is the element token a list command expects (DT_DATABASE,
\* DT_MEASUREMENT, DT_SERIES, DT_FIELD_TYPE); "OTHER" is any token the
\* reader does not expect at all.
StatusTokens == {"STATUS0", "STATUSERR"}

Ops == {"create_database", "create_measurement", "list_databases",
        "list_measurements", "list_series", "list_active_series",
        "get_schema", "write_points", "delete_points", "select_points",
        "select_last_points", "count_points", "sum_points"}

TransactOps == {"create_database", "create_measurement", "delete_points"}
ListOps == {"list_databases", "list_measurements", "list_series",
            "list_active_series", "get_schema"}
SelectOps == {"select_points", "select_last_points"}
StreamOps == SelectOps \cup {"sum_points"}

\* The tokens that a method tells apart; every other token is "OTHER" to it.
Alphabet(op) ==
    StatusTokens \cup {"OTHER"} \cup
    CASE op \in ListOps -> {"ITEM"}
      [] op = "write_points" -> {"READY"}
      [] op \in SelectOps -> {"CHUNK", "END"}
      [] op = "sum_points" -> {"SUMS", "END"}
      [] op = "count_points" -> {"TF", "TL", "NP"}
      [] OTHER -> {}

\* What the server sends before it falls silent and closes: up to n frames.
Responses(S, n) == UNION {[1..k -> S] : k \in 0..n}

\* --------------------------------------------------- Connection methods
\* Each method is the outcome of reading the response r frame by frame:
\*   "ok"           returned normally
\*   "status"       StatusException with a non-zero code
\*   "status_zero"  StatusException carrying code 0
\*   "proto"        ProtocolException
\*   "closed"       ConnectionClosedException / OSError from the socket
\* Reading past the end of r is a recv on a closed stream.
IsStatus(out) == out \in {"status", "status_zero"}

transact(r) ==
    IF r = <<>> THEN "closed"
    ELSE IF Head(r) \notin StatusTokens THEN "proto"
    ELSE IF Head(r) = "STATUSERR" THEN "status"
    ELSE "ok"

RECURSIVE list_stream(_)
list_stream(r) ==
    IF r = <<>> THEN "closed"
    ELSE IF Head(r) \in StatusTokens
         THEN (IF Head(r) = "STATUSERR" THEN "status" ELSE "ok")
    ELSE IF Head(r) # "ITEM" THEN "proto"
    ELSE list_stream(Tail(r))

\* (variant: whatever token arrives is taken for DT_READY_FOR_CHUNK)
ready_for_chunk_any(r) == IF r = <<>> THEN "closed" ELSE "ok"
\* _write_points_begin and _write_points_chunk read the same answer.
ready_for_chunk(r) ==
    IF r = <<>> THEN "closed"
    ELSE IF Head(r) = "STATUSERR" THEN "status"
    ELSE IF Head(r) = "STATUS0" THEN "status_zero"
    ELSE IF Head(r) # "READY" THEN "proto"
    ELSE "ok"

\* Connection.write_points with k chunks still to send after the begin.
RECURSIVE write_chunks(_, _)
write_chunks(r, k) ==
    IF k = 0 THEN transact(r)
    ELSE IF ready_for_chunk(r) # "ok" THEN ready_for_chunk(r)
    ELSE write_chunks(Tail(r), k - 1)

conn_write_points(r, k) ==
    IF ready_for_chunk(r) # "ok" THEN ready_for_chunk(r)
    ELSE write_chunks(Tail(r), k)

\* The first token read by SelectOP.__init__ / SumsOP.__init__.
stream_start(r) ==
    IF r = <<>> THEN "closed"
    ELSE IF Head(r) = "STATUSERR" THEN "status"
    ELSE IF Head(r) = "STATUS0" THEN "status_zero"
    ELSE "ok"

conn_count_points(r) ==
    IF r = <<>> THEN "closed"
    ELSE IF Head(r) = "STATUSERR" THEN "status"
    ELSE IF Head(r) = "STATUS0" THEN "status_zero"
    ELSE IF Head(r) # "TF" THEN "proto"
    ELSE IF Len(r) < 2 THEN "closed"
    ELSE IF r[2] # "TL" THEN "proto"
    ELSE IF Len(r) < 3 THEN "closed"
    ELSE IF r[3] # "NP" THEN "proto"
    ELSE IF Len(r) < 4 THEN "closed"
    ELSE IF r[4] # "STATUS0" THEN "proto"
    ELSE "ok"

\* The Connection method behind each Client operation.
Method(op, r, k) ==
    CASE op \in TransactOps -> transact(r)
      [] op \in ListOps -> list_stream(r)
      [] op = "write_points" -> conn_write_points(r, k)
      [] op \in StreamOps -> stream_start(r)
      [] op = "count_points" -> conn_count_points(r)

\* Every way the method can end against some server: its outcome and the
\* first token it read ("none" when the stream was closed at once).
Answers(op) ==
    {[out |-> Method(op, r, k),
      tok |-> IF r = <<>> THEN "none" ELSE Head(r)] :
        r \in Responses(Alphabet(op), MaxResp),
        k \in IF op = "write_points" THEN 1..MaxChunks ELSE {1}}
AnswerTable == [op \in Ops |-> Answers(op)]

\* Connection.__init__: "refused" leaves no socket; "tls" is a failed
\* wrap_socket; otherwise authenticate() is a transact on the new socket.
ConnectResults(cred) ==
    IF cred
    THEN {"refused", "tls"} \cup
         {transact(r) : r \in Responses(StatusTokens \cup {"OTHER"}, 1)}
    ELSE {"refused", "ok"}

\* What has gone over a socket: tls is TRUE once wrap_socket has returned,
\* first is the first command sent on it ("none": nothing was sent,
\* "AUTHENTICATE", or "command": a command of a Client operation).
NoWire == [tls |-> FALSE, first |-> "none"]

\* (variant: the credentials are ignored)
Authenticates_never(cred) == FALSE
\* `if credentials:` in Connection.__init__
Authenticates(cred) == cred

\* Connection.__init__ on a socket that create_connection has returned,
\* ending as `how`; when it returns normally the caller's command follows.
Connection(cred, how) ==
    IF Authenticates(cred)
    THEN IF how = "tls" THEN NoWire
         ELSE [tls |-> TRUE, first |-> "AUTHENTICATE"]
    ELSE [tls |-> FALSE, first |-> IF how = "ok" THEN "command" ELSE "none"]

\* ------------------------------------------------------------- Client
\* (variant: connect() is called without the test)
NeedsConnect_always(c) == TRUE
\* `if self.conn is None: self.connect()` at the head of every operation.
NeedsConnect(c) == c = None

\* (variant: every exception closes, a StatusException too)
ClosesOn_any(op, out) == out # "ok"
\* The except clauses of the operation: which outcomes call self.close().
ClosesOn(op, out) ==
    IF op = "create_database"
    THEN out = "proto"
    ELSE out # "ok" /\ ~IsStatus(out)

NoIt == [conn |-> None, kind |-> "none", last_token |-> "none"]

\* op: the method called; out: how it ended; pre: Client.conn when it was
\* called; used: the connection its command was sent on (None: no command
\* was sent); opened: whether it called connect().
NoCall == [op |-> "none", out |-> "none", pre |-> None, used |-> None,
           opened |-> FALSE]

clvars == <<credentials, conn, socks, leaked, eof, nsock, it, last, assert_ok,
           wire>>
pqvars == <<push_cb, queue, cookie_queue, schemas, thread, running, wk, nwk,
            fl, ncalls, hist, written, cbs>>
pqvars_but_wk == <<push_cb, queue, cookie_queue, schemas, thread, running, nwk,
                   fl, ncalls, hist, written, cbs>>
fnvars == <<stream, wp, codec, queue_cond>>
vars == <<clvars, pqvars, fnvars>>

ClientInit ==
    /\ credentials \in BOOLEAN
    /\ conn = None
    /\ socks = {}
    /\ leaked = {}
    /\ eof = {}
    /\ nsock = 0
    /\ it = NoIt
    /\ last = NoCall
    /\ assert_ok = TRUE
    /\ wire = [s \in 1..MaxConns |-> NoWire]

\* The command of `op` is sent on connection c (open sockets s) and the
\* Connection method ends as `ans`; the except clauses then decide.
Run(op, c, s, ans, opened) ==
    LET closes == ClosesOn(op, ans.out) IN
    /\ conn' = IF closes THEN None ELSE c
    /\ socks' = IF closes THEN s \ {c} ELSE s
    /\ eof' = IF closes THEN eof \ {c}
              ELSE IF ans.out = "closed" THEN eof \cup {c} ELSE eof
    /\ it' = IF op \in StreamOps /\ ans.out = "ok"
             THEN [conn |-> c, kind |-> op, last_token |-> ans.tok]
             ELSE it
    /\ last' = [op |-> op, out |-> ans.out, pre |-> conn, used |-> c,
                opened |-> opened]

\* A Client operation other than close(): connect if needed, then the
\* Connection method inside try/except.
ClientCall(op) ==
    /\ IF NeedsConnect(conn)
       THEN IF conn # None
            THEN \* connect(): assert self.conn is None
                 /\ assert_ok' = FALSE
                 /\ last' = [op |-> op, out |-> "assert", pre |-> conn,
                             used |-> None, opened |-> FALSE]
                 /\ UNCHANGED <<conn, socks, leaked, eof, nsock, it, wire>>
            ELSE /\ nsock < MaxConns
                 /\ nsock' = nsock + 1
                 /\ assert_ok' = assert_ok
                 /\ \E how \in ConnectResults(credentials) :
                      /\ wire' = [wire EXCEPT ![nsock + 1] =
                                     IF how = "refused" THEN @
                                     ELSE Connection(credentials, how)]
                      /\ IF how = "ok"
                         THEN /\ \E ans \in AnswerTable[op] :
                                   Run(op, nsock + 1, socks \cup {nsock + 1},
                                       ans, TRUE)
                              /\ leaked' = leaked
                         ELSE \* Connection() raised: outside the try block,
                              \* and nothing closes the socket it had created
                              /\ conn' = None
                              /\ socks' = IF how = "refused" THEN socks
                                          ELSE socks \cup {nsock + 1}
                              /\ leaked' = IF how = "refused" THEN leaked
                                           ELSE leaked \cup {nsock + 1}
                              /\ last' = [op |-> op, out |-> how, pre |-> conn,
                                          used |-> None, opened |-> TRUE]
                              /\ UNCHANGED <<eof, it>>
       ELSE /\ \E ans \in AnswerTable[op] :
                 /\ conn \in eof => ans.out = "closed"
                 /\ Run(op, conn, socks, ans, FALSE)
            /\ UNCHANGED <<nsock, leaked, assert_ok, wire>>
    /\ UNCHANGED <<credentials, pqvars, fnvars>>

\* Client.close()
ClientClose ==
    /\ conn' = None
    /\ socks' = socks \ {conn}
    /\ eof' = eof \ {conn}
    /\ last' = [op |-> "close", out |-> "ok", pre |-> conn, used |-> None,
                opened |-> FALSE]
    /\ UNCHANGED <<credentials, leaked, nsock, it, assert_ok, wire, pqvars,
                   fnvars>>

\* SelectOP.read_chunk / SumsOP.read_chunk on the object the caller holds.
\* `nxt` is the token the server sends next ("none": it closed the stream).
ChunkToken(kind) == IF kind = "sum_points" THEN "SUMS" ELSE "CHUNK"

\* (variant: any status after DT_END ends the stream)
read_chunk_any_status(o, nxt) ==
    IF o.last_token = "END"
    THEN IF nxt = "none" THEN "closed"
         ELSE IF nxt \notin StatusTokens THEN "proto"
         ELSE "end"
    ELSE IF o.last_token # ChunkToken(o.kind) THEN "proto"
    ELSE IF nxt = "none" THEN "closed"
    ELSE "chunk"
\* SelectOP.read_chunk / SumsOP.read_chunk: "end" is the return of None,
\* "chunk" the return of a chunk.
read_chunk(o, nxt) ==
    IF o.last_token = "END"
    THEN IF nxt = "none" THEN "closed"
         ELSE IF nxt # "STATUS0" THEN "proto"
         ELSE "end"
    ELSE IF o.last_token # ChunkToken(o.kind) THEN "proto"
    ELSE IF nxt = "none" THEN "closed"
    ELSE "chunk"

ReadChunk ==
    /\ it # NoIt
    /\ \E nxt \in Alphabet(it.kind) \cup {"none"} :
         LET out == IF it.conn \notin socks \/ it.conn \in eof
                    THEN "closed" ELSE read_chunk(it, nxt)
         IN /\ it' = IF out = "chunk" THEN [it EXCEPT !.last_token = nxt]
                     ELSE it
            /\ eof' = IF out = "closed" /\ it.conn \in socks
                      THEN eof \cup {it.conn} ELSE eof
            /\ last' = [op |-> "read_chunk", out |-> out, pre |-> conn,
                        used |-> it.conn, opened |-> FALSE]
    /\ UNCHANGED <<credentials, conn, socks, leaked, nsock, assert_ok, wire,
                   pqvars, fnvars>>

\* ---------------------------------------------------------- PushQueue
\* A path is the string "database/measurement/series", kept as its
\* characters with each name one symbol.
PathA == <<"db", "/", "m1", "/", "a">>
PathB == <<"db", "/", "m2", "/", "b">>
PathBad == <<"db", "/", "m1">>
Paths == {PathA, PathB, PathBad}

\* str.split('/')
RECURSIVE split(_, _)
split(str, cur) ==
    IF str = <<>> THEN <<cur>>
    ELSE IF Head(str) = "/" THEN <<cur>> \o split(Tail(str), <<>>)
    ELSE split(Tail(str), Append(cur, Head(str)))

\* `database, measurement, series = path.split('/')` raises ValueError
\* unless there are exactly three parts.
Unpacks(path) == Len(split(path, <<>>)) = 3
SchemaKey(path) == <<split(path, <<>>)[1], split(path, <<>>)[2]>>

\* Python dicts keep insertion order: a sequence of (path, items) pairs.
Has(d, path) == \E i \in 1..Len(d) : d[i].path = path
Items(d, path) == d[CHOOSE i \in 1..Len(d) : d[i].path = path].items
\* d[path] = xs
Assign(d, path, xs) ==
    IF Has(d, path)
    THEN [i \in 1..Len(d) |->
            IF d[i].path = path THEN [path |-> path, items |-> xs] ELSE d[i]]
    ELSE Append(d, [path |-> path, items |-> xs])
\* (variant: the new items take the place of the old ones)
Extend_replace(d, path, xs) == Assign(d, path, xs)
\* d[path] += xs  (KeyError when the key is missing: never reached, the
\* two dicts always have the same keys)
Extend(d, path, xs) == Assign(d, path, Items(d, path) \o xs)

Flushers == {"f1", "f2"}
Workers == 1..(MaxFlush + 1)

NoWorker == [pc |-> "unborn", queue |-> <<>>, cookies |-> <<>>, i |-> 0,
             schema |-> FALSE, fails |-> 0]
Started == [NoWorker EXCEPT !.pc = "loop"]
IdleFlusher == [pc |-> "idle", calls |-> 0, snap |-> 0, j |-> None]


\* PushQueue.__init__, which ends with start().
PQInit ==
    /\ push_cb \in BOOLEAN
    /\ queue = <<>>
    /\ cookie_queue = <<>>
    /\ schemas = {}
    /\ thread = 1
    /\ running = TRUE
    /\ wk = [w \in Workers |-> IF w = 1 THEN Started ELSE NoWorker]
    /\ nwk = 1
    /\ fl = [f \in Flushers |-> IdleFlusher]
    /\ ncalls = 0
    /\ hist = <<>>
    /\ written = <<>>
    /\ cbs = <<>>
    /\ queue_cond = None

\* ---- producers
\* The body of append / append_list under the lock; ps are the new points,
\* cs the cookies that go with them.
Enqueue(path, ps, cs) ==
    /\ IF ~Has(queue, path)
       THEN /\ queue' = Assign(queue, path, ps)
            /\ cookie_queue' = Assign(cookie_queue, path, cs)
       ELSE /\ queue' = Extend(queue, path, ps)
            /\ cookie_queue' = Extend(cookie_queue, path, cs)

\* append(p, path, cookie): the point is new, the cookie is None or given.
PQAppend(path, given) ==
    /\ ncalls < MaxCalls
    /\ ncalls' = ncalls + 1
    /\ Len(hist) < MaxPoints
    /\ LET p == Len(hist) + 1
           c == IF given THEN p ELSE None
       IN /\ Enqueue(path, <<p>>, <<c>>)
          /\ hist' = Append(hist, [path |-> path, cookie |-> c,
                                   paired |-> TRUE])
    /\ UNCHANGED <<clvars, fnvars, push_cb, schemas, thread, running, wk, nwk, fl, written, cbs>>

\* append_list(ps, path, cookies) with n new points; cookies is None, a
\* list of n cookies, or (a caller's slip) a list one short.
PQAppendList(path, n, mode) ==
    /\ ncalls < MaxCalls
    /\ ncalls' = ncalls + 1
    /\ Len(hist) + n <= MaxPoints
    /\ mode = "short" => n > 0
    /\ LET ps == [k \in 1..n |-> Len(hist) + k]
           cs == CASE mode = "none" -> [k \in 1..n |-> None]
                   [] mode = "matched" -> ps
                   [] mode = "short" -> SubSeq(ps, 1, n - 1)
       IN /\ Enqueue(path, ps, cs)
          /\ hist' = hist \o [k \in 1..n |->
                        [path |-> path,
                         cookie |-> IF k <= Len(cs) THEN cs[k] ELSE None,
                         paired |-> k <= Len(cs)]]
    /\ UNCHANGED <<clvars, fnvars, push_cb, schemas, thread, running, wk, nwk, fl, written, cbs>>

\* ---- the worker thread: PushQueue._push_loop
Path(w) == wk[w].queue[wk[w].i].path
Points(w) == wk[w].queue[wk[w].i].items

\* `while self.queue or self.running`: the two reads are separate steps,
\* no lock is held.
WLoopQueue(w) ==
    /\ wk[w].pc = "loop"
    /\ wk' = [wk EXCEPT ![w] = [NoWorker EXCEPT !.pc =
                    IF queue # <<>> THEN "swap" ELSE "loop_running"]]
    /\ UNCHANGED <<clvars, fnvars, ncalls, push_cb, queue, cookie_queue, schemas, thread, running,
                   nwk, fl, hist, written, cbs>>

WLoopRunning(w) ==
    /\ wk[w].pc = "loop_running"
    /\ wk' = [wk EXCEPT ![w].pc = IF running THEN "swap" ELSE "exited"]
    /\ UNCHANGED <<clvars, fnvars, ncalls, push_cb, queue, cookie_queue, schemas, thread, running,
                   nwk, fl, hist, written, cbs>>

\* The critical section: wait while the queue is empty and running, then
\* take both maps and leave empty ones.  `if queue:` follows.
WSwap(w) ==
    /\ wk[w].pc = "swap"
    /\ queue # <<>> \/ ~running
    /\ queue' = <<>>
    /\ cookie_queue' = <<>>
    /\ IF queue # <<>>
       THEN wk' = [wk EXCEPT ![w] = [pc |-> "path", queue |-> queue,
                                     cookies |-> cookie_queue, i |-> 1,
                                     schema |-> FALSE, fails |-> 0]]
       ELSE wk' = [wk EXCEPT ![w].pc = "loop"]
    /\ UNCHANGED <<clvars, fnvars, ncalls, push_cb, schemas, thread, running, nwk, fl, hist, written, cbs>>

\* Head of the for-loop body: split the path (outside any try) and look
\* the schema up in the cache.
WPath(w) ==
    /\ wk[w].pc = "path"
    /\ wk' = IF Unpacks(Path(w))
             THEN [wk EXCEPT ![w].pc = "try",
                             ![w].schema = SchemaKey(Path(w)) \in schemas,
                             ![w].fails = 0]
             ELSE [wk EXCEPT ![w].pc = "dead"]
    /\ UNCHANGED <<clvars, fnvars, ncalls, push_cb, queue, cookie_queue, schemas, thread, running,
                   nwk, fl, hist, written, cbs>>

\* (variant: the handler gives the path up and goes on)
OnException_giveup == "cb"
\* Where the worker goes when the try block raised: print, sleep 30 s and
\* go round the `while True` again.
OnException == "try"

Failed(w) ==
    [wk EXCEPT ![w].pc = OnException,
               ![w].fails = IF @ < MaxFail THEN @ + 1 ELSE @]

\* try: `if schema is None: schema = self.tsdb.get_schema(...)`; the
\* Client call returns (ok) or raises.
WGetSchema(w, ok) ==
    /\ wk[w].pc = "try"
    /\ ~wk[w].schema
    /\ IF ok
       THEN /\ wk' = [wk EXCEPT ![w].schema = TRUE]
            /\ schemas' = schemas \cup {SchemaKey(Path(w))}
       ELSE /\ wk' = Failed(w)
            /\ schemas' = schemas
    /\ UNCHANGED <<clvars, fnvars, ncalls, push_cb, queue, cookie_queue, thread, running, nwk, fl,
                   hist, written, cbs>>

\* try: `self.tsdb.write_points(...)`; `assert points` makes an empty list
\* raise every time.
WWrite(w, ok) ==
    /\ wk[w].pc = "try"
    /\ wk[w].schema
    /\ IF ok /\ Points(w) # <<>>
       THEN /\ wk' = [wk EXCEPT ![w].pc = "cb"]
            /\ written' = Append(written,
                                 [path |-> Path(w), points |-> Points(w)])
       ELSE /\ wk' = Failed(w)
            /\ written' = written
    /\ UNCHANGED <<clvars, fnvars, ncalls, push_cb, queue, cookie_queue, schemas, thread, running,
                   nwk, fl, hist, cbs>>

\* zip(points, cookies[path])
RECURSIVE zip(_, _)
zip(xs, ys) ==
    IF xs = <<>> \/ ys = <<>> THEN <<>>
    ELSE <<[p |-> Head(xs), c |-> Head(ys)]>> \o zip(Tail(xs), Tail(ys))

\* `if self.push_cb: for p, c in zip(...): self.push_cb(p, c)`, then the
\* next path of the for-loop, or back to the while when it is exhausted.
\* The callback is the caller's code: invocation number `raises` raises
\* (0: none does), and nothing catches it.
WCallbacks(w, raises) ==
    /\ wk[w].pc = "cb"
    /\ LET calls == IF push_cb THEN zip(Points(w), Items(wk[w].cookies, Path(w)))
                    ELSE <<>>
       IN /\ raises <= Len(calls)
          /\ IF raises > 0
             THEN /\ cbs' = cbs \o SubSeq(calls, 1, raises)
                  /\ wk' = [wk EXCEPT ![w].pc = "dead"]
             ELSE /\ cbs' = cbs \o calls
                  /\ wk' = IF wk[w].i < Len(wk[w].queue)
                           THEN [wk EXCEPT ![w].pc = "path", ![w].i = @ + 1]
                           ELSE [wk EXCEPT ![w].pc = "loop"]
    /\ UNCHANGED <<clvars, fnvars, ncalls, push_cb, queue, cookie_queue, schemas, thread, running,
                   nwk, fl, hist, written>>

Terminated(w) == wk[w].pc \in {"exited", "dead"}
Alive(w) == wk[w].pc \notin {"unborn", "exited", "dead"}

\* ---- flush(), called by thread f
\* The calling threads are interchangeable while outside flush(), so the
\* second one is only needed for a call that overlaps one of the first.
InFlush(f) == fl[f].pc \notin {"idle", "raised"}

FlushCall(f) ==
    /\ ~InFlush(f)
    /\ f = "f2" => InFlush("f1")
    /\ fl["f1"].calls + fl["f2"].calls < MaxFlush
    /\ fl' = [fl EXCEPT ![f] = [pc |-> "spin", calls |-> @.calls + 1,
                                snap |-> Len(hist), j |-> None]]
    /\ UNCHANGED <<clvars, fnvars, ncalls, push_cb, queue, cookie_queue, schemas, thread, running,
                   wk, nwk, hist, written, cbs>>

\* `while self.queue: pass`
FlushSpin(f) ==
    /\ fl[f].pc = "spin"
    /\ queue = <<>>
    /\ fl' = [fl EXCEPT ![f].pc = "stop"]
    /\ UNCHANGED <<clvars, fnvars, ncalls, push_cb, queue, cookie_queue, schemas, thread, running,
                   wk, nwk, hist, written, cbs>>

\* `with self.queue_cond: self.running = False; notify()`
FlushStop(f) ==
    /\ fl[f].pc = "stop"
    /\ running' = FALSE
    /\ fl' = [fl EXCEPT ![f].pc = "join"]
    /\ UNCHANGED <<clvars, fnvars, ncalls, push_cb, queue, cookie_queue, schemas, thread, wk, nwk,
                   hist, written, cbs>>

\* `self.thread.join()`: read the attribute (None has no join), ...
FlushJoin(f) ==
    /\ fl[f].pc = "join"
    /\ fl' = IF thread = None
             THEN [fl EXCEPT ![f].pc = "raised", ![f].snap = 0]
             ELSE [fl EXCEPT ![f].pc = "joining", ![f].j = thread]
    /\ UNCHANGED <<clvars, fnvars, ncalls, push_cb, queue, cookie_queue, schemas, thread, running,
                   wk, nwk, hist, written, cbs>>

\* ... then block until that thread has terminated.
FlushJoined(f) ==
    /\ fl[f].pc = "joining"
    /\ Terminated(fl[f].j)
    /\ fl' = [fl EXCEPT ![f].pc = "clear"]
    /\ UNCHANGED <<clvars, fnvars, ncalls, push_cb, queue, cookie_queue, schemas, thread, running,
                   wk, nwk, hist, written, cbs>>

\* `self.thread = None`
FlushClear(f) ==
    /\ fl[f].pc = "clear"
    /\ thread' = None
    /\ fl' = [fl EXCEPT ![f].pc = "start"]
    /\ UNCHANGED <<clvars, fnvars, ncalls, push_cb, queue, cookie_queue, schemas, running, wk, nwk,
                   hist, written, cbs>>

\* start(): `assert not self.thread`, set running, create and start the
\* thread; flush() then returns.
FlushStart(f) ==
    /\ fl[f].pc = "start"
    /\ IF thread # None
       THEN /\ fl' = [fl EXCEPT ![f].pc = "raised", ![f].snap = 0, ![f].j = None]
            /\ UNCHANGED <<thread, running, wk, nwk>>
       ELSE /\ running' = TRUE
            /\ thread' = nwk + 1
            /\ nwk' = nwk + 1
            /\ wk' = [wk EXCEPT ![nwk + 1] = Started]
            /\ fl' = [fl EXCEPT ![f].pc = "idle", ![f].snap = 0, ![f].j = None]
    /\ UNCHANGED <<clvars, fnvars, ncalls, push_cb, queue, cookie_queue, schemas, hist,
                   written, cbs>>

\* ---- the critical sections, with the lock of queue_cond made explicit
\* Between two steps queue_cond is None or held by a worker inside its
\* `with self.queue_cond:` block; append, append_list and the block of
\* flush() hold it for one step only.
\* (variant: the block is left without giving the lock back)
Release_never(holder) == holder
\* The end of a `with self.queue_cond:` block.
Release(holder) == None

\* time.sleep(self.throttle_secs) is over: `with self.queue_cond:`
WAcquire(w) ==
    /\ wk[w].pc = "swap"
    /\ queue_cond = None
    /\ queue_cond' = w
    /\ wk' = [wk EXCEPT ![w].pc = "locked"]
    /\ UNCHANGED <<clvars, pqvars_but_wk, stream, wp, codec>>

\* `while not self.queue and self.running: self.queue_cond.wait()`:
\* wait() gives the lock up ...
WWait(w) ==
    /\ wk[w].pc = "locked"
    /\ queue = <<>> /\ running
    /\ queue_cond' = None
    /\ wk' = [wk EXCEPT ![w].pc = "waiting"]
    /\ UNCHANGED <<clvars, pqvars_but_wk, stream, wp, codec>>

\* ... and takes it again before it returns.
WNotified(w) ==
    /\ wk[w].pc = "waiting"
    /\ queue_cond = None
    /\ queue_cond' = w
    /\ wk' = [wk EXCEPT ![w].pc = "locked"]
    /\ UNCHANGED <<clvars, pqvars_but_wk, stream, wp, codec>>

\* The four assignments and the end of the block; `if queue:` follows.
WTake(w) ==
    /\ wk[w].pc = "locked"
    /\ queue # <<>> \/ ~running
    /\ queue' = <<>>
    /\ cookie_queue' = <<>>
    /\ queue_cond' = Release(w)
    /\ IF queue # <<>>
       THEN wk' = [wk EXCEPT ![w] = [pc |-> "path", queue |-> queue,
                                     cookies |-> cookie_queue, i |-> 1,
                                     schema |-> FALSE, fails |-> 0]]
       ELSE wk' = [wk EXCEPT ![w].pc = "loop"]
    /\ UNCHANGED <<clvars, stream, wp, codec, ncalls, push_cb, schemas, thread,
                   running, nwk, fl, hist, written, cbs>>

\* append / append_list / the block of flush(): entered when the lock is
\* free, left in the same step.
LockedAppend(path, given) == queue_cond = None /\ PQAppend(path, given)
LockedAppendList(path, n, mode) ==
    queue_cond = None /\ PQAppendList(path, n, mode)
LockedStop(f) == queue_cond = None /\ FlushStop(f)

PQNext ==
    \/ \E path \in Paths, given \in BOOLEAN : PQAppend(path, given)
    \/ \E path \in Paths, n \in 0..MaxList,
          mode \in {"none", "matched", "short"} : PQAppendList(path, n, mode)
    \/ \E w \in Workers : WLoopQueue(w)
    \/ \E w \in Workers : WLoopRunning(w)
    \/ \E w \in Workers : WSwap(w)
    \/ \E w \in Workers : WPath(w)
    \/ \E w \in Workers, ok \in BOOLEAN : WGetSchema(w, ok)
    \/ \E w \in Workers, ok \in BOOLEAN : WWrite(w, ok)
    \/ \E w \in Workers, raises \in 0..MaxList + 1 : WCallbacks(w, raises)
    \/ \E f \in Flushers : FlushCall(f)
    \/ \E f \in Flushers : FlushSpin(f)
    \/ \E f \in Flushers : FlushStop(f)
    \/ \E f \in Flushers : FlushJoin(f)
    \/ \E f \in Flushers : FlushJoined(f)
    \/ \E f \in Flushers : FlushClear(f)
    \/ \E f \in Flushers : FlushStart(f)

ClientNext ==
    \/ \E op \in Ops : ClientCall(op)
    \/ ClientClose
    \/ ReadChunk

\* ------------------------------------------------ one chunk stream
\* One SelectOP / SumsOP followed from its construction to the call of
\* read_chunk that returns None or raises.  stream.resp is everything the
\* server sends in answer to the request before it closes the connection,
\* stream.pos the number of its frames read so far, stream.outs how the
\* constructor and then each read_chunk call ended.
NoStream == [kind |-> "none", resp |-> <<>>, pos |-> 0, op |-> NoIt,
             outs |-> <<>>]

StreamInit ==
    \E kind \in StreamOps : \E r \in Responses(Alphabet(kind), MaxResp) :
        stream = [NoStream EXCEPT !.kind = kind, !.resp = r]

\* The frame the next recv returns ("none": the stream is closed).
NextToken == IF stream.pos < Len(stream.resp)
             THEN stream.resp[stream.pos + 1] ELSE "none"

\* SelectOP.__init__ / SumsOP.__init__: send the request, read one token.
StreamOpen ==
    /\ stream.kind # "none"
    /\ stream.outs = <<>>
    /\ LET out == stream_start(stream.resp) IN
       stream' = [stream EXCEPT
                    !.outs = <<out>>,
                    !.pos = IF NextToken = "none" THEN 0 ELSE 1,
                    !.op = IF out = "ok"
                           THEN [conn |-> None, kind |-> stream.kind,
                                 last_token |-> NextToken]
                           ELSE NoIt]
    /\ UNCHANGED <<clvars, pqvars, wp, codec, queue_cond>>

\* Whether read_chunk, ending as `out`, took a frame off the socket: not
\* when recv failed, and not when last_token alone made it raise.
Consumes(o, out) ==
    /\ out # "closed"
    /\ out = "proto" => o.last_token = "END"

\* The caller reads on while the object hands out chunks.
StreamRead ==
    /\ stream.outs # <<>>
    /\ stream.outs[Len(stream.outs)] \in {"ok", "chunk"}
    /\ LET out == read_chunk(stream.op, NextToken) IN
       stream' = [stream EXCEPT
                    !.outs = Append(@, out),
                    !.pos = IF Consumes(stream.op, out) THEN @ + 1 ELSE @,
                    !.op = IF out = "chunk"
                           THEN [@ EXCEPT !.last_token = NextToken] ELSE @]
    /\ UNCHANGED <<clvars, pqvars, wp, codec, queue_cond>>

StreamNext ==
    \/ StreamOpen
    \/ StreamRead

\* The caller calls read_chunk again on an object whose last call returned
\* None; what the server sends after the stream belongs to later commands.
StreamReadAgain ==
    /\ stream.outs # <<>>
    /\ stream.outs[Len(stream.outs)] = "end"
    /\ LET out == read_chunk(stream.op, NextToken) IN
       stream' = [stream EXCEPT
                    !.outs = Append(@, out),
                    !.pos = IF Consumes(stream.op, out) THEN @ + 1 ELSE @]
    /\ UNCHANGED <<clvars, pqvars, wp, codec, queue_cond>>

StreamAgainNext ==
    \/ StreamOpen
    \/ StreamRead
    \/ StreamReadAgain

\* ------------------------------------------------------ Schema codec
\* Bytes are numbers 0..255 and a buffer is a sequence of them.  A point is
\* a function from "time_ns" and the field names to a value (a natural
\* number) or Null; a field is its name with the size of its FieldType.
Null == -1
WordBits == 64
WordBytes == 8

ceil_div(n, d) == (n + d - 1) \div d
\* (variant: no rounding)
round_up_none(v, K) == v
\* round_up(v, K): up to the nearest multiple of K.
round_up(v, K) == ceil_div(v, K) * K

\* Byte j of the little-endian image of v, for v below MaxValue.
LEByte(v, j) ==
    CASE j = 0 -> v % 256
      [] j = 1 -> (v \div 256) % 256
      [] j = 2 -> (v \div 65536) % 256
      [] OTHER -> 0
\* The number held little-endian in bytes a+1..a+size of buf; every number
\* from MaxValue on is read as MaxValue.
LEValue(buf, a, size) ==
    LET byte(j) == IF j < size THEN buf[a + 1 + j] ELSE 0 IN
    IF \E j \in 3..(size - 1) : byte(j) # 0 THEN MaxValue
    ELSE byte(0) + 256 * byte(1) + 65536 * byte(2)

\* (variant: no bit is ever cleared)
BitmapByte_set(cleared, k) == 255
\* Byte k (from 0) of the bitmap words: bit b of it is bit 8k + b of the
\* bitmap, cleared at the positions in `cleared`, set everywhere else.
BitmapByte(cleared, k) ==
    LET bit(b) == IF (8 * k + b) \in cleared THEN 0 ELSE 2 ^ b
    IN bit(0) + bit(1) + bit(2) + bit(3) + bit(4) + bit(5) + bit(6) + bit(7)

\* (variant: a null value is written as it is)
Slot_raw(v) == v
\* `if v is None: values[i] = 0`: the number written in the slot of v.
Slot(v) == IF v = Null THEN 0 ELSE v

\* Field.pack(points, index, n)
pack(f, points, index, n) ==
    LET values == [i \in 1..n |-> points[index + i][f.name]]
        cleared == {i \in 0..(n - 1) : values[i + 1] = Null}
        bitmap == [k \in 1..(WordBytes * ceil_div(n, WordBits)) |->
                     BitmapByte(cleared, k - 1)]
        nbytes == n * f.size
        data == [k \in 1..nbytes |->
                   LET v == values[((k - 1) \div f.size) + 1]
                   IN LEByte(Slot(v), (k - 1) % f.size)]
        pad == IF nbytes % 8 # 0 THEN [k \in 1..(8 - (nbytes % 8)) |-> 0]
               ELSE <<>>
    IN bitmap \o data \o pad

\* Schema.pack_points(points, index, n)
RECURSIVE pack_fields(_, _, _, _)
pack_fields(fields, points, index, n) ==
    IF fields = <<>> THEN <<>>
    ELSE pack(Head(fields), points, index, n)
         \o pack_fields(Tail(fields), points, index, n)

pack_points(schema, points, index, n) ==
    [k \in 1..(8 * n) |->
        LEByte(points[index + ((k - 1) \div 8) + 1]["time_ns"], (k - 1) % 8)]
    \o pack_fields(schema, points, index, n)

\* Schema.data_len_for_npoints(N)
RECURSIVE SumRoundedSizes(_, _)
SumRoundedSizes(fields, N) ==
    IF fields = <<>> THEN 0
    ELSE round_up(N * Head(fields).size, 8) + SumRoundedSizes(Tail(fields), N)

data_len_for_npoints(schema, N) ==
    8 * N + ceil_div(N, 64) * 8 * Len(schema) + SumRoundedSizes(schema, N)

RECURSIVE SumSizes(_)
SumSizes(fields) ==
    IF fields = <<>> THEN 0 ELSE Head(fields).size + SumSizes(Tail(fields))

\* (variant: the quotient is not brought down to a multiple of 64)
max_points_for_data_len_any(schema, data_len) ==
    (8 * data_len) \div (64 + 8 * SumSizes(schema) + Len(schema))
\* Schema.max_points_for_data_len(data_len):
\*     N = int((data_len / (8 + S + M/8)) / 64) * 64
\* The divisor is (64 + 8S + M)/8, exact in binary floating point, and the
\* quotient of a u32 data_len by it is never rounded up to a multiple of 64
\* it does not reach, so int() yields the floor of the exact quotient.
max_points_for_data_len(schema, data_len) ==
    ((8 * data_len) \div ((64 + 8 * SumSizes(schema) + Len(schema)) * 64)) * 64

\* data_view[a:b]: a Python slice stops at the end of the buffer.
Slice(buf, a, b) ==
    IF a >= Len(buf) THEN <<>>
    ELSE SubSeq(buf, a + 1, IF b < Len(buf) THEN b ELSE Len(buf))

\* np.frombuffer needs a whole number of items.
FromBufferOk(buf, itemsize) == Len(buf) % itemsize = 0

\* FieldData.get_bitmap_bit(i) on the bytes of the bitmap words; FALSE in
\* `ok` is the IndexError of a word that is not there.
get_bitmap_bit(bitmap_offset, bitmap, i) ==
    LET bitmap_i == (bitmap_offset + i) \div WordBits
        shift == (bitmap_offset + i) % WordBits
        k == WordBytes * bitmap_i + (shift \div 8)
    IN IF k + 1 > Len(bitmap) THEN [ok |-> FALSE, bit |-> 0]
       ELSE [ok |-> TRUE, bit |-> (bitmap[k + 1] \div (2 ^ (shift % 8))) % 2]

\* FieldData.__getitem__(i) for every i in range(npoints): the values the
\* reader sees, Null where the bit is clear; `ok` is FALSE when a buffer
\* or an index is out of range (ValueError, IndexError).
FieldData(bitmap_offset, bitmap_data, field_data, size, npoints) ==
    IF \/ ~FromBufferOk(bitmap_data, WordBytes)
       \/ ~FromBufferOk(field_data, size)
       \/ \E i \in 0..(npoints - 1) :
             \/ (i + 1) * size > Len(field_data)
             \/ ~get_bitmap_bit(bitmap_offset, bitmap_data, i).ok
    THEN [ok |-> FALSE, values |-> <<>>]
    ELSE [ok |-> TRUE,
          values |-> [i \in 1..npoints |->
            IF get_bitmap_bit(bitmap_offset, bitmap_data, i - 1).bit = 0
            THEN Null
            ELSE LEValue(field_data, (i - 1) * size, size)]]

\* RXChunk.__init__: the walk over the requested fields, from `offset`.
RECURSIVE RXFields(_, _, _, _, _)
RXFields(fields, npoints, bitmap_offset, data, offset) ==
    IF fields = <<>> THEN <<>>
    ELSE LET ft == Head(fields)
             bitmap_nbytes == ceil_div(bitmap_offset + npoints, 64) * 8
             bitmap_data == Slice(data, offset, offset + bitmap_nbytes)
             data_len == ft.size * npoints
             field_data == Slice(data, offset + bitmap_nbytes,
                                 offset + bitmap_nbytes + data_len)
             skip == IF data_len % 8 # 0 THEN 8 - (data_len % 8) ELSE 0
         IN <<FieldData(bitmap_offset, bitmap_data, field_data, ft.size,
                        npoints)>>
            \o RXFields(Tail(fields), npoints, bitmap_offset, data,
                        offset + bitmap_nbytes + data_len + skip)

RXChunk(schema, fields, npoints, bitmap_offset, data) ==
    LET ts == Slice(data, 0, npoints * 8) IN
    [timestamps |-> IF Len(ts) # npoints * 8 THEN <<>>
                    ELSE [i \in 1..npoints |-> LEValue(ts, (i - 1) * 8, 8)],
     timestamps_ok |-> Len(ts) = npoints * 8,
     fields |-> RXFields(fields, npoints, bitmap_offset, data, npoints * 8)]

\* ---- one Schema and the calls made on it
FieldA == [name |-> "a", size |-> 1]      \* bool
FieldB == [name |-> "b", size |-> 4]      \* u32, f32, i32
FieldC == [name |-> "c", size |-> 8]      \* u64, f64, i64
Schemas == {<<>>, <<FieldA>>, <<FieldC>>, <<FieldB, FieldA>>}
Names(schema) == {schema[j].name : j \in 1..Len(schema)}

\* The value point i has in a field when it is not null.
ValueOf(name, i) ==
    CASE name = "time_ns" -> 254 + i
      [] name = "a" -> i % 2
      [] name = "b" -> 65534 + i
      [] name = "c" -> 253 + 2 * i

\* `count` points of the schema, null in the cells (point, name) of nulls.
PointsOf(schema, count, nulls) ==
    [i \in 1..count |->
        [key \in Names(schema) \cup {"time_ns"} |->
            IF <<i, key>> \in nulls THEN Null ELSE ValueOf(key, i)]]

\* Any subset of the cells is null in a short list; a long list has no
\* null, or one at either end, next to it or at a word boundary.
NullSets(schema, count) ==
    IF count <= MaxShort
    THEN SUBSET ((1..count) \X Names(schema))
    ELSE {{}} \cup {{<<i, name>>} :
                      i \in {1, 2, WordBits, count} \cap (1..count),
                      name \in Names(schema)}

Counts == (0..(MaxShort + 1)) \cup {WordBits - 1, WordBits, WordBits + 1}

NoChunk == [timestamps |-> <<>>, timestamps_ok |-> FALSE, fields |-> <<>>]
NoCodec == [pc |-> "none", schema |-> <<>>, points |-> <<>>, index |-> 0,
            n |-> 0, data |-> <<>>, bitmap_offset |-> 0, chunk |-> NoChunk,
            data_len |-> 0, N |-> 0]

\* Either the arguments of pack_points or those of
\* max_points_for_data_len.
CodecInit ==
    \/ \E schema \in Schemas, count \in Counts, index \in 0..1 :
         /\ index <= count
         /\ \E nulls \in NullSets(schema, count) :
              codec = [NoCodec EXCEPT !.pc = "points", !.schema = schema,
                         !.points = PointsOf(schema, count, nulls),
                         !.index = index, !.n = count - index]
    \/ \E schema \in Schemas, data_len \in 0..MaxDataLen :
         codec = [NoCodec EXCEPT !.pc = "data_len", !.schema = schema,
                    !.data_len = data_len]

\* data = schema.pack_points(points, index, n)
CodecPack ==
    /\ codec.pc = "points"
    /\ codec' = [codec EXCEPT !.pc = "packed",
                   !.data = pack_points(codec.schema, codec.points,
                                        codec.index, codec.n)]
    /\ UNCHANGED <<clvars, pqvars, stream, wp, queue_cond>>

\* RXChunk(schema, all its fields, npoints, bitmap_offset, data) on the
\* payload of a whole list.
CodecUnpack(bitmap_offset) ==
    /\ codec.pc = "packed"
    /\ codec.index = 0
    /\ codec' = [codec EXCEPT !.pc = "unpacked",
                   !.bitmap_offset = bitmap_offset,
                   !.chunk = RXChunk(codec.schema, codec.schema, codec.n,
                                     bitmap_offset, codec.data)]
    /\ UNCHANGED <<clvars, pqvars, stream, wp, queue_cond>>

\* N = schema.max_points_for_data_len(data_len)
CodecMaxPoints ==
    /\ codec.pc = "data_len"
    /\ codec' = [codec EXCEPT !.pc = "N",
                   !.N = max_points_for_data_len(codec.schema, codec.data_len)]
    /\ UNCHANGED <<clvars, pqvars, stream, wp, queue_cond>>

CodecNext ==
    \/ CodecPack
    \/ \E bitmap_offset \in 0..(WordBits - 1) : CodecUnpack(bitmap_offset)
    \/ CodecMaxPoints

\* ---------------------------------------- one write_points transaction
\* Connection.write_points followed frame by frame.  wp.log is the traffic
\* of the socket in order: what the client sent ("tx": the command prefix,
\* a chunk frame with the range of points it carries, DT_END) and what it
\* read ("rx": the token).  The server sends at most MaxResp frames and
\* then closes.
\* wp.announced is the u32 read with the last DT_READY_FOR_CHUNK.
\* wp.past holds the logs of the attempts the worker made before this one.
NoWrite == [pc |-> "none", schema |-> <<>>, K |-> 0, max_data_len |-> 0,
            N |-> 0, index |-> 0, rem_points |-> 0, log |-> <<>>,
            out |-> "none", announced |-> 0, past |-> <<>>]

Tx(frame, index, n) == [dir |-> "tx", frame |-> frame, index |-> index, n |-> n]
Rx(token) == [dir |-> "rx", frame |-> token, index |-> 0, n |-> 0]
RxCount(log) == Cardinality({k \in 1..Len(log) : log[k].dir = "rx"})

\* What the next recv may return: a token, or "none" once the server has
\* closed.
Replies(log) ==
    IF RxCount(log) >= MaxResp THEN {"none"}
    ELSE Alphabet("write_points") \cup {"none"}
AsResponse(token) == IF token = "none" THEN <<>> ELSE <<token>>

WriteSchemas == {<<FieldA>>, <<FieldC>>}
WriteCounts == {0, 1, WordBits, WordBits + 1, 2 * WordBits + 1}
\* The max_data_len values a server may advertise for the schema: too
\* small for 64 points, and room for one, two or MaxChunks words of them.
Advertised(schema) ==
    {0, data_len_for_npoints(schema, WordBits) - 1}
    \cup {data_len_for_npoints(schema, k * WordBits) : k \in 1..MaxChunks}

WriteInit ==
    \E schema \in WriteSchemas, K \in WriteCounts :
        wp = [NoWrite EXCEPT !.pc = "begin", !.schema = schema, !.K = K]

\* (variant: the whole rest goes into one chunk)
min_first(a, b) == a
\* min(rem_points, N)
min(a, b) == IF a < b THEN a ELSE b

\* (variant: the index is left where it was)
next_index_stuck(index, n) == index
\* index += n
next_index(index, n) == index + n

\* `assert points`, _write_points_begin, then the set-up of the loop.
WPBegin ==
    /\ wp.pc = "begin"
    /\ IF wp.K = 0
       THEN wp' = [wp EXCEPT !.pc = "done", !.out = "assert"]
       ELSE \E token \in Replies(wp.log), max_data_len \in Advertised(wp.schema) :
              LET out == ready_for_chunk(AsResponse(token))
                  log == wp.log \o <<Tx("PREFIX", 0, 0)>> \o
                         (IF token = "none" THEN <<>> ELSE <<Rx(token)>>)
              IN IF out = "ok"
                 THEN wp' = [wp EXCEPT !.pc = "loop", !.log = log,
                               !.max_data_len = max_data_len,
                               !.announced = max_data_len,
                               !.index = 0, !.rem_points = wp.K,
                               !.N = max_points_for_data_len(wp.schema,
                                                             max_data_len)]
                 ELSE wp' = [wp EXCEPT !.pc = "done", !.log = log,
                               !.out = out]
    /\ UNCHANGED <<clvars, pqvars, stream, codec, queue_cond>>

\* One turn of `while rem_points`: pack, the two assertions,
\* _write_points_chunk (the u32 it returns, `later`, is dropped), advance.
WPChunk ==
    /\ wp.pc = "loop"
    /\ wp.rem_points # 0
    /\ LET n == min(wp.rem_points, wp.N)
           data == pack_points(wp.schema, PointsOf(wp.schema, wp.K, {}),
                               wp.index, n)
       IN IF \/ data_len_for_npoints(wp.schema, n) # Len(data)
             \/ Len(data) > wp.max_data_len
          THEN wp' = [wp EXCEPT !.pc = "done", !.out = "assert"]
          ELSE \E token \in Replies(wp.log), later \in Advertised(wp.schema) :
                 LET out == ready_for_chunk(AsResponse(token))
                     log == wp.log \o <<Tx("CHUNK", wp.index, n)>> \o
                            (IF token = "none" THEN <<>> ELSE <<Rx(token)>>)
                 IN IF out = "ok"
                    THEN wp' = [wp EXCEPT !.log = log,
                                  !.announced = later,
                                  !.index = next_index(@, n),
                                  !.rem_points = @ - n]
                    ELSE wp' = [wp EXCEPT !.pc = "done", !.log = log,
                                  !.out = out]
    /\ UNCHANGED <<clvars, pqvars, stream, codec, queue_cond>>

\* _write_points_end, once the loop is left.
WPEnd ==
    /\ wp.pc = "loop"
    /\ wp.rem_points = 0
    /\ \E token \in Replies(wp.log) :
         wp' = [wp EXCEPT !.pc = "done",
                  !.out = transact(AsResponse(token)),
                  !.log = wp.log \o <<Tx("END", 0, 0)>> \o
                          (IF token = "none" THEN <<>> ELSE <<Rx(token)>>)]
    /\ UNCHANGED <<clvars, pqvars, stream, codec, queue_cond>>

WriteNext ==
    \/ WPBegin
    \/ WPChunk
    \/ WPEnd

\* The retry loop of the worker around write_points: the call raised, the
\* handler prints and sleeps 30 s, and `while True` calls write_points
\* again with the same schema and the same list.
WRetry ==
    /\ wp.pc = "done"
    /\ wp.out # "ok"
    /\ Len(wp.past) < MaxFail
    /\ wp' = [NoWrite EXCEPT !.pc = "begin", !.schema = wp.schema,
                             !.K = wp.K, !.past = Append(wp.past, wp.log)]
    /\ UNCHANGED <<clvars, pqvars, stream, codec, queue_cond>>

RetryNext ==
    \/ WPBegin
    \/ WPChunk
    \/ WPEnd
    \/ WRetry

\* ------------------------------------------------------- specifications
ClientIdle ==
    /\ credentials = FALSE /\ conn = None /\ socks = {} /\ leaked = {}
    /\ eof = {}
    /\ nsock = 0 /\ it = NoIt /\ last = NoCall /\ assert_ok = TRUE
    /\ wire = [s \in 1..MaxConns |-> NoWire]
PQIdle == PQInit /\ push_cb = FALSE
StreamIdle == stream = NoStream
WriteIdle == wp = NoWrite
CodecIdle == codec = NoCodec

\* One Client and its caller; the PushQueue stays as constructed.
InitClient == ClientInit /\ PQIdle /\ StreamIdle /\ WriteIdle /\ CodecIdle
SpecClient == InitClient /\ [][ClientNext]_vars

\* One PushQueue and its callers; its Client is seen through the outcome
\* of each get_schema / write_points call.
InitPQ == ClientIdle /\ PQInit /\ StreamIdle /\ WriteIdle /\ CodecIdle
SpecPQ == InitPQ /\ [][PQNext]_vars

\* The PushQueue in the setting of its reconnect scenario: producers that
\* give well-formed paths and no cookies, no callback, one thread calling
\* flush().  Every thread that can take a step gets to take it, and each
\* request the worker keeps retrying is accepted in the end: the server
\* fails only finitely often.
PQLiveNext ==
    \/ \E path \in {PathA, PathB} : PQAppend(path, FALSE)
    \/ \E path \in {PathA, PathB}, n \in 0..MaxList :
          PQAppendList(path, n, "none")
    \/ \E w \in Workers : WLoopQueue(w)
    \/ \E w \in Workers : WLoopRunning(w)
    \/ \E w \in Workers : WSwap(w)
    \/ \E w \in Workers : WPath(w)
    \/ \E w \in Workers, ok \in BOOLEAN : WGetSchema(w, ok)
    \/ \E w \in Workers, ok \in BOOLEAN : WWrite(w, ok)
    \/ \E w \in Workers : WCallbacks(w, 0)
    \/ FlushCall("f1")
    \/ FlushSpin("f1")
    \/ FlushStop("f1")
    \/ FlushJoin("f1")
    \/ FlushJoined("f1")
    \/ FlushClear("f1")
    \/ FlushStart("f1")

PQFairness ==
    /\ \A w \in Workers :
          /\ WF_vars(WLoopQueue(w))
          /\ WF_vars(WLoopRunning(w))
          /\ WF_vars(WSwap(w))
          /\ WF_vars(WPath(w))
          /\ WF_vars(WGetSchema(w, TRUE))
          /\ WF_vars(WWrite(w, TRUE))
          /\ WF_vars(WCallbacks(w, 0))
    /\ WF_vars(FlushSpin("f1"))
    /\ WF_vars(FlushStop("f1"))
    /\ WF_vars(FlushJoin("f1"))
    /\ WF_vars(FlushJoined("f1"))
    /\ WF_vars(FlushClear("f1"))
    /\ WF_vars(FlushStart("f1"))

InitPQLive == InitPQ /\ push_cb = FALSE
SpecPQLive == InitPQLive /\ [][PQLiveNext]_vars /\ PQFairness

\* The PushQueue with the lock of its critical sections followed step by
\* step: one thread calling flush(), producers with well-formed paths.
LockNext ==
    \/ \E path \in {PathA, PathB}, given \in BOOLEAN : LockedAppend(path, given)
    \/ \E path \in {PathA, PathB}, n \in 0..MaxList,
          mode \in {"none", "matched"} : LockedAppendList(path, n, mode)
    \/ \E w \in Workers : WLoopQueue(w)
    \/ \E w \in Workers : WLoopRunning(w)
    \/ \E w \in Workers : WAcquire(w)
    \/ \E w \in Workers : WWait(w)
    \/ \E w \in Workers : WNotified(w)
    \/ \E w \in Workers : WTake(w)
    \/ \E w \in Workers : WPath(w)
    \/ \E w \in Workers, ok \in BOOLEAN : WGetSchema(w, ok)
    \/ \E w \in Workers, ok \in BOOLEAN : WWrite(w, ok)
    \/ \E w \in Workers : WCallbacks(w, 0)
    \/ FlushCall("f1")
    \/ FlushSpin("f1")
    \/ LockedStop("f1")
    \/ FlushJoin("f1")
    \/ FlushJoined("f1")
    \/ FlushClear("f1")
    \/ FlushStart("f1")
SpecLock == InitPQ /\ [][LockNext]_vars

\* One SelectOP / SumsOP against every response of the server.
InitStream == ClientIdle /\ PQIdle /\ StreamInit /\ WriteIdle /\ CodecIdle
SpecStream == InitStream /\ [][StreamNext]_vars
\* The same with a caller that goes on calling read_chunk after the end.
SpecStreamAgain == InitStream /\ [][StreamAgainNext]_vars

\* One write_points call against every server.
InitWrite == ClientIdle /\ PQIdle /\ StreamIdle /\ WriteInit /\ CodecIdle
SpecWrite == InitWrite /\ [][WriteNext]_vars
\* The same call inside the retry loop of the worker.
SpecRetry == InitWrite /\ [][RetryNext]_vars

\* One Schema: packing, unpacking and sizing for every argument.
InitCodec == ClientIdle /\ PQIdle /\ StreamIdle /\ WriteIdle /\ CodecInit
SpecCodec == InitCodec /\ [][CodecNext]_vars

\* ---------------------------------------------------------------- claims
Range(f) == {f[i] : i \in DOMAIN f}
Ids == 1..Len(hist)

\* The write that carried point p (0: none has).
Carrier(p) ==
    IF \E j \in 1..Len(written) : p \in Range(written[j].points)
    THEN CHOOSE j \in 1..Len(written) : p \in Range(written[j].points)
    ELSE 0
Delivered(p) == Carrier(p) # 0
Index(xs, p) == CHOOSE k \in 1..Len(xs) : xs[k] = p
\* p reached the server no later than q, and before it within one write.
Before(p, q) ==
    /\ Carrier(p) <= Carrier(q)
    /\ Carrier(p) = Carrier(q) =>
         Index(written[Carrier(p)].points, p) < Index(written[Carrier(q)].points, q)

\* No malformed path has been given: none in the queue, in a batch a
\* worker holds (a worker that died keeps its batch), or with a point.
WellFormedPaths ==
    /\ \A p \in Ids : Unpacks(hist[p].path)
    /\ \A k \in 1..Len(queue) : Unpacks(queue[k].path)
    /\ \A w \in Workers : \A k \in 1..Len(wk[w].queue) :
          Unpacks(wk[w].queue[k].path)
AllPaired == \A p \in Ids : hist[p].paired
SingleFlushCaller == fl["f2"].calls = 0

\* C1: with a single caller of flush() and well-formed paths, when flush()
\* returns (its start() has run), every point appended before the call has
\* been carried by a successful write_points, in append order per path.
C1_FlushDelivers ==
    [][\A f \in Flushers :
         (/\ SingleFlushCaller
          /\ WellFormedPaths
          /\ fl[f].pc = "start"
          /\ fl'[f].pc = "idle")
         => \A p \in 1..fl[f].snap :
              /\ Delivered(p)'
              /\ \A q \in 1..fl[f].snap :
                   (p < q /\ hist[p].path = hist[q].path /\ Delivered(q)')
                   => Before(p, q)']_vars

\* C2: points of one path reach the server in append order: the write that
\* carries the earlier point is not later than the write that carries the
\* later one, and precedes it inside one write.
C2_PathOrder ==
    \A p, q \in Ids :
        (p < q /\ hist[p].path = hist[q].path /\ Delivered(p) /\ Delivered(q))
        => Before(p, q)

\* C3: the worker survives every failure while it processes a batch, and
\* no point it took out of the queue is left without a successful write
\* when it is gone.
C3_WorkerSurvives ==
    \A w \in Workers :
        /\ wk[w].pc # "dead"
        /\ Terminated(w) =>
             \A k \in 1..Len(wk[w].queue) :
                \A p \in Range(wk[w].queue[k].items) : Delivered(p)

\* The successful writes that carried any point of the list xs.
WritesOf(xs) ==
    {j \in 1..Len(written) : Range(written[j].points) \cap Range(xs) # {}}
\* The worker is past the try block of the k-th path of its batch.
Past(w, k) ==
    \/ wk[w].pc = "loop"
    \/ wk[w].pc \in {"path", "try", "cb"} /\ k < wk[w].i
    \/ wk[w].pc = "cb" /\ k = wk[w].i

\* C4: whatever number of attempts failed before, each path of a swapped
\* batch gets at most one successful write_points, that write carries the
\* whole list of the path and no write carries a part of it, and once the
\* worker is past the path exactly one such write has completed.
C4_RetryOutcome ==
    \A w \in Workers : \A k \in 1..Len(wk[w].queue) :
        LET e == wk[w].queue[k] IN
        /\ \A j \in WritesOf(e.items) :
              written[j].points = e.items /\ written[j].path = e.path
        /\ Cardinality(WritesOf(e.items)) <= 1
        /\ Past(w, k) => Cardinality(WritesOf(e.items)) = 1

\* A worker has finished a batch of two paths, the last of them after at
\* least one failed attempt.
C4_Witness ==
    \E w \in Workers :
        /\ wk[w].pc = "loop"
        /\ Len(wk[w].queue) = 2
        /\ wk[w].fails >= 1
        /\ \A k \in 1..2 : Cardinality(WritesOf(wk[w].queue[k].items)) = 1

\* C5: the callback is invoked at most once per point, only for points
\* whose write has succeeded, with the cookie appended with the point, in
\* append order within one path; and once the worker has finished a batch
\* every point of the batch has had its invocation.
C5_Callback ==
    (push_cb /\ AllPaired) =>
    /\ \A k \in 1..Len(cbs) :
          /\ Delivered(cbs[k].p)
          /\ cbs[k].c = hist[cbs[k].p].cookie
          /\ \A l \in 1..Len(cbs) :
                (k < l /\ hist[cbs[k].p].path = hist[cbs[l].p].path)
                => cbs[k].p < cbs[l].p
    /\ \A w \in Workers :
          wk[w].pc = "loop" =>
             \A k \in 1..Len(wk[w].queue) :
                \A p \in Range(wk[w].queue[k].items) :
                   \E l \in 1..Len(cbs) : cbs[l].p = p

\* C6: at every moment at most one worker thread exists, and no call of
\* flush() fails, however the callers interleave.
C6_OneWorker ==
    /\ Cardinality({w \in Workers : Alive(w)}) <= 1
    /\ \A f \in Flushers : fl[f].pc # "raised"


\* A Client operation (not close(), not read_chunk) was the last call.
LastIsOp == last.op \in Ops
\* ... and it raised something other than a StatusException.
OtherFailure ==
    LastIsOp /\ last.out \in {"proto", "closed", "tls", "refused"}
\* The Connection objects that were constructed and not closed.
LiveConnections == socks \ leaked

\* C7: after any Client operation failed with something that is not a
\* StatusError, the Client holds no connection and the connection the
\* command went out on is closed.
C7_FailureCloses ==
    OtherFailure =>
        /\ conn = None
        /\ last.used # None => last.used \notin socks

\* C8 as claimed: after every Client operation that raised a StatusError
\* the Client holds an open connection, the one it held before if it held
\* one.
C8_StatusKeepsSession ==
    (LastIsOp /\ IsStatus(last.out)) =>
        /\ conn # None
        /\ conn \in socks
        /\ last.pre # None => conn = last.pre

\* The last call was a Client operation whose own command was answered
\* with a StatusError.
CommandStatus == LastIsOp /\ IsStatus(last.out) /\ last.used # None

\* C8 amended: when the command of a Client operation raised a StatusError
\* (not the AUTHENTICATE sent while the connection was being opened), the
\* Client holds the connection the command went out on, open and not
\* replaced, and the next operation sends its command on that connection
\* without connecting.
C8_CommandStatusKeepsSession ==
    /\ [](CommandStatus =>
            /\ conn = last.used
            /\ conn \in socks
            /\ last.pre # None => conn = last.pre)
    /\ [][(CommandStatus /\ last'.op \in Ops /\ last' # last)
          => (last'.used = conn /\ ~last'.opened /\ nsock' = nsock)]_vars

\* A command on a connection that had already seen a StatusError was
\* answered with a StatusError again.
C8_Witness ==
    /\ CommandStatus
    /\ last.pre # None
    /\ ~last.opened
    /\ conn = last.pre

\* C9: after a ProtocolError, wherever it was raised, the Client holds no
\* connection and the connection it was raised on is closed.
C9_ProtocolErrorCloses ==
    last.out = "proto" =>
        /\ conn = None
        /\ last.used # None => last.used \notin socks

\* C10: the Client holds at most one live Connection and every live
\* Connection is the one it holds; a fresh Client has opened none; connect()
\* was only ever called by an operation that found no connection, so its
\* assertion has never failed.
C10_OneConnection ==
    /\ assert_ok
    /\ Cardinality(LiveConnections) <= 1
    /\ LiveConnections = IF conn = None THEN {} ELSE {conn}
    /\ last = NoCall => (conn = None /\ nsock = 0)
    /\ last.opened => last.pre = None

\* The Client holds its third connection: two earlier ones were given up
\* by failures or close().
C10_Witness ==
    /\ conn = 3
    /\ last.opened
    /\ LiveConnections = {3}

\* ---- chunk streams
\* The frames read so far, and how the last call ended.
Consumed == SubSeq(stream.resp, 1, stream.pos)
StreamOut == stream.outs[Len(stream.outs)]
\* The stream is over for the caller: None was returned or a call raised.
StreamFinished ==
    stream.outs # <<>> /\ StreamOut \notin {"ok", "chunk"}

\* How far a sequence of frames is a chunk stream as the protocol defines
\* it: "chunks" while only chunk frames came, "ended" after DT_END, "done"
\* after the DT_STATUS_CODE 0 that follows it, "bad" at any other frame.
RECURSIVE Shape(_, _, _)
Shape(c, chunk, sofar) ==
    IF c = <<>> THEN sofar
    ELSE IF sofar = "chunks" /\ Head(c) = chunk
         THEN Shape(Tail(c), chunk, "chunks")
    ELSE IF sofar = "chunks" /\ Head(c) = "END"
         THEN Shape(Tail(c), chunk, "ended")
    ELSE IF sofar = "ended" /\ Head(c) = "STATUS0"
         THEN Shape(Tail(c), chunk, "done")
    ELSE "bad"
StreamShape == Shape(Consumed, ChunkToken(stream.kind), "chunks")

\* C11 as claimed: the stream ends exactly when the frames received are
\* chunks, DT_END and DT_STATUS_CODE 0, and every response that departs
\* from that, a status code in any place included, raises ProtocolError.
C11_StreamTermination ==
    (StreamFinished /\ StreamOut # "closed") =>
        /\ StreamOut = "end" <=> StreamShape = "done"
        /\ StreamShape # "done" => StreamOut = "proto"

\* C11 amended: the stream ends exactly when the frames received are
\* chunks, DT_END and DT_STATUS_CODE 0; a DT_STATUS_CODE as the very first
\* frame raises StatusError from the request; any other departure raises
\* ProtocolError; a response that stops short raises ConnectionClosed.
C11_StreamOutcome ==
    StreamFinished =>
        /\ StreamOut = "end" <=> StreamShape = "done"
        /\ IsStatus(StreamOut) <=>
              (Consumed # <<>> /\ Consumed[1] \in StatusTokens)
        /\ IsStatus(StreamOut) => Len(stream.outs) = 1 /\ stream.pos = 1
        /\ StreamOut = "proto" <=>
              (StreamShape = "bad" /\ Consumed[1] \notin StatusTokens)
        /\ StreamOut = "closed" <=>
              (StreamShape \in {"chunks", "ended"}
               /\ stream.pos = Len(stream.resp))

\* A stream of two chunks was read to its end.
C11_Witness ==
    /\ StreamFinished
    /\ StreamOut = "end"
    /\ stream.pos = 4

\* ---- iterators and the connection
\* The caller has just been handed an iterator on the connection the
\* Client holds, and the first frame of its stream is a chunk not yet read.
FreshIterator ==
    /\ last.op \in StreamOps
    /\ last.out = "ok"
    /\ it.conn = conn
    /\ conn \in socks
    /\ it.last_token = ChunkToken(it.kind)

\* C12: while the iterator has not been read to the end of its stream and
\* its connection is open, no Client operation sends a command on that
\* connection.
C12_DrainBeforeNext ==
    [][FreshIterator => ~(last'.op \in Ops /\ last'.used = it.conn)]_vars

\* ---- packing and unpacking
\* The chunk read back holds the timestamps and, field by field, the
\* values of the points packed, Null exactly where the point had Null.
ReadsBack ==
    /\ codec.chunk.timestamps_ok
    /\ codec.chunk.timestamps = [i \in 1..codec.n |-> codec.points[i]["time_ns"]]
    /\ \A j \in 1..Len(codec.schema) :
          /\ codec.chunk.fields[j].ok
          /\ codec.chunk.fields[j].values =
                [i \in 1..codec.n |-> codec.points[i][codec.schema[j].name]]

\* C14 as claimed: the payload of pack_points(P, 0, |P|) read as an inbound
\* chunk with any bitmap_offset in 0..63 gives back the timestamps, the
\* values and the null positions of P.
C14_RoundTrip ==
    codec.pc = "unpacked" => ReadsBack

\* C14 amended: the same, read with bitmap_offset 0, the offset the packer
\* wrote the bitmaps at.
C14_RoundTripAtZero ==
    (codec.pc = "unpacked" /\ codec.bitmap_offset = 0) => ReadsBack

\* A list that fills more than one bitmap word, with a null field in its
\* last point, was packed and read back with bitmap_offset 0.
C14_Witness ==
    /\ codec.pc = "unpacked"
    /\ codec.bitmap_offset = 0
    /\ codec.n = WordBits + 1
    /\ Len(codec.schema) = 2
    /\ codec.points[codec.n]["a"] = Null

\* C15: the length data_len_for_npoints(N) computes is the length of the
\* payload pack_points(points, index, N) builds, and both are
\* 8N + sum over the fields of (ceil(N/64)*8 + roundUp8(N*fieldSize)).
RECURSIVE FieldBlocks(_, _)
FieldBlocks(fields, N) ==
    IF fields = <<>> THEN 0
    ELSE LET bytes == N * Head(fields).size
             words == IF N % 64 = 0 THEN N \div 64 ELSE (N \div 64) + 1
             rounded == IF bytes % 8 = 0 THEN bytes ELSE bytes + 8 - (bytes % 8)
         IN words * 8 + rounded + FieldBlocks(Tail(fields), N)

IsTx(e) == e.dir = "tx"
IsChunk(e) == e.dir = "tx" /\ e.frame = "CHUNK"
TxFrames == SelectSeq(wp.log, IsTx)
ChunkFrames == SelectSeq(wp.log, IsChunk)
StatusReads ==
    {k \in 1..Len(wp.log) :
        wp.log[k].dir = "rx" /\ wp.log[k].frame \in StatusTokens}
\* The transaction went through to the status that answers DT_END: the
\* server acknowledged the begin and every chunk.
Finalized ==
    /\ wp.pc = "done"
    /\ Len(wp.log) >= 2
    /\ wp.log[Len(wp.log) - 1] = Tx("END", 0, 0)
    /\ Len(wp.log) \in StatusReads

\* C13: when the server acknowledges every chunk, K >= 1 points with room
\* for M points per chunk go out as ceil(K/M) chunk frames, then one DT_END,
\* and one status is read; frame j carries the M points from (j-1)M on, the
\* last frame the rest.
C13_WriteChunking ==
    (Finalized /\ wp.N >= 1) =>
        LET m == Len(ChunkFrames)
            M == wp.N
        IN /\ wp.K >= 1
           /\ (m - 1) * M < wp.K /\ wp.K <= m * M
           /\ Len(TxFrames) = m + 2
           /\ TxFrames[1] = Tx("PREFIX", 0, 0)
           /\ TxFrames[m + 2] = Tx("END", 0, 0)
           /\ \A j \in 1..m :
                 TxFrames[j + 1] =
                    Tx("CHUNK", (j - 1) * M,
                       IF j < m THEN M ELSE wp.K - (m - 1) * M)
           /\ StatusReads = {Len(wp.log)}

\* 65 points with room for 64 per chunk were written in two chunks.
C13_Witness ==
    /\ Finalized
    /\ wp.out = "ok"
    /\ wp.K = WordBits + 1
    /\ wp.N = WordBits
    /\ Len(ChunkFrames) = 2

\* C20: the command prefix is the first thing on the wire and is sent
\* once; a chunk frame directly follows a DT_READY_FOR_CHUNK read, so no
\* two chunks are in flight; DT_END directly follows the
\* DT_READY_FOR_CHUNK that acknowledged the chunk carrying the last point;
\* and nothing is sent after a DT_STATUS_CODE has been read.
C20_WriteOrdering ==
    \A k \in 1..Len(wp.log) :
        LET e == wp.log[k] IN
        /\ (k = 1) <=> (e = Tx("PREFIX", 0, 0))
        /\ IsChunk(e) => wp.log[k - 1] = Rx("READY")
        /\ (IsTx(e) /\ e.frame = "END") =>
              /\ wp.log[k - 1] = Rx("READY")
              /\ IsChunk(wp.log[k - 2])
              /\ wp.log[k - 2].index + wp.log[k - 2].n = wp.K
        /\ (IsTx(e) /\ k < Len(wp.log)) => wp.log[k + 1].dir = "rx"
        /\ k \in StatusReads => k = Len(wp.log)

\* The second chunk of a transaction was answered with a status code and
\* the transaction stopped there.
C20_Witness ==
    /\ wp.pc = "done"
    /\ IsStatus(wp.out)
    /\ Len(ChunkFrames) = 2
    /\ IsChunk(wp.log[Len(wp.log) - 1])

\* ---- authentication
\* C17: on every socket of a Client with credentials anything is sent only
\* after the TLS wrap, and AUTHENTICATE is the first command, so the
\* command of an operation goes out on a wrapped, authenticated socket; a
\* Client without credentials never wraps and never sends AUTHENTICATE; and
\* AUTHENTICATE is never sent on a plain socket.
C17_AuthenticateFirst ==
    /\ \A s \in 1..MaxConns :
          /\ wire[s].first = "AUTHENTICATE" => wire[s].tls
          /\ credentials =>
                (wire[s].first # "none" =>
                    wire[s].tls /\ wire[s].first = "AUTHENTICATE")
          /\ ~credentials =>
                ~wire[s].tls /\ wire[s].first # "AUTHENTICATE"
          /\ s > nsock => wire[s] = NoWire
    /\ (last.used # None /\ last.op \in Ops) =>
          wire[last.used].first = IF credentials THEN "AUTHENTICATE"
                                  ELSE "command"
    /\ conn # None => wire[conn].tls = credentials

\* A Client with credentials has reconnected after a failure on its first
\* connection, and its command went out on the second.
C17_Witness ==
    /\ credentials
    /\ nsock = 2
    /\ wire[1].tls
    /\ last.opened
    /\ last.used = 2
    /\ wire[2] = [tls |-> TRUE, first |-> "AUTHENTICATE"]

\* ---- status codes
\* C18: no operation raises a StatusError that carries the code 0.
C18_StatusNonZero ==
    last.out # "status_zero"

\* ---- liveness of the PushQueue
\* C19: once the server accepts requests again and the producers have
\* stopped, every appended point is delivered and the queue stays empty,
\* and every call of flush() returns.
C19_OutageLiveness ==
    /\ <>[](queue = <<>> /\ \A p \in Ids : Delivered(p))
    /\ (fl["f1"].pc # "idle") ~> (fl["f1"].pc = "idle")

\* ---- chunk sizes
\* The payload of a chunk frame of the log, as the loop packed it.
Payload(e) == pack_points(wp.schema, PointsOf(wp.schema, wp.K, {}), e.index, e.n)

\* C21: with a non-empty list neither assertion of the write loop fails;
\* every chunk frame sent carries at most max_points_for_data_len(
\* max_data_len) points in a payload of data_len_for_npoints(n) bytes, at
\* most max_data_len, where max_data_len is the value of the first
\* DT_READY_FOR_CHUNK; and the values read with later acknowledgements
\* change neither the limit nor the chunk size.
C21_ChunkBound ==
    /\ [](wp.K >= 1 =>
            /\ wp.out # "assert"
            /\ wp.pc = "loop" =>
                 wp.N = max_points_for_data_len(wp.schema, wp.max_data_len)
            /\ \A k \in 1..Len(wp.log) :
                  IsChunk(wp.log[k]) =>
                     /\ wp.log[k].n <= wp.N
                     /\ wp.log[k].n = min(wp.K - wp.log[k].index, wp.N)
                     /\ Len(Payload(wp.log[k])) =
                           data_len_for_npoints(wp.schema, wp.log[k].n)
                     /\ Len(Payload(wp.log[k])) <= wp.max_data_len)
    /\ [][wp.pc = "loop" =>
            (wp'.N = wp.N /\ wp'.max_data_len = wp.max_data_len)]_vars

\* Three chunks went out, the last one shorter, although an
\* acknowledgement in between announced another length than the first.
C21_Witness ==
    /\ Len(ChunkFrames) = 3
    /\ wp.N = WordBits
    /\ ChunkFrames[3].n = 1
    /\ wp.announced # wp.max_data_len

\* ---- outbound field blocks
\* Where the block of field j begins in the payload (bytes before it), and
\* the parts of it: timestamps come first, then one block per field.
BlockStart(j) ==
    8 * codec.n + FieldBlocks(SubSeq(codec.schema, 1, j - 1), codec.n)
BlockLen(j) == FieldBlocks(<<codec.schema[j]>>, codec.n)
BitmapWords == IF codec.n % 64 = 0 THEN codec.n \div 64 ELSE (codec.n \div 64) + 1
\* Bit (i mod 64) of bitmap word i/64 of the block of field j.
BlockBit(j, i) ==
    LET byte == codec.data[BlockStart(j) + 8 * (i \div 64) + ((i % 64) \div 8) + 1]
    IN (byte \div (2 ^ (i % 8))) % 2
\* Byte b of value slot i of the block of field j.
SlotByte(j, i, b) ==
    codec.data[BlockStart(j) + 8 * BitmapWords + i * codec.schema[j].size + b + 1]
\* The value point i of the packed range has in field j.
Packed(j, i) == codec.points[codec.index + i + 1][codec.schema[j].name]

AfterJoin(f) == fl[f].pc \in {"clear", "start"}
Running == {w \in Workers : Alive(w)}

\* C23: between the join and the restart of a call of flush() the worker
\* it joined has terminated and no worker is running; and when the call
\* returns the running flag is true and exactly one worker is running, the
\* one it has just started.
C23_FlushSequence ==
    /\ [](\A f \in Flushers :
            AfterJoin(f) => (Terminated(fl[f].j) /\ Running = {}))
    /\ [][\A f \in Flushers :
            (fl[f].pc = "start" /\ fl'[f].pc = "idle") =>
               /\ running'
               /\ thread' \notin Workers \cap (1..nwk)
               /\ wk'[thread'] = Started
               /\ Running' = {thread'}]_vars

\* ---- the end of the worker loop
\* The queue map holds at least one point.
QueueHoldsPoints == \E k \in 1..Len(queue) : queue[k].items # <<>>

\* C24: the worker leaves its loop only in a state where the running flag
\* is false and the queue map holds no point.
C24_WorkerExit ==
    [][\A w \in Workers :
         (wk[w].pc # "exited" /\ wk'[w].pc = "exited") =>
            (~running' /\ ~QueueHoldsPoints')]_vars

\* ---- the schema cache
\* Worker w is in the try block of a path: its next step is get_schema
\* when it holds no schema, write_points when it holds one.
InTry(w) == wk[w].pc = "try"
Cached(w) == SchemaKey(Path(w)) \in schemas

\* C25: a worker is about to issue get_schema only for a pair that has no
\* schema in the cache, and attempts write_points only with the schema of a
\* pair that is cached; a pair enters the cache only by a get_schema of a
\* worker that succeeded, and never leaves it; a get_schema that failed
\* leaves the cache as it was and the worker before the lookup again.
C25_SchemaCache ==
    /\ [](\A w \in Workers : InTry(w) => (wk[w].schema <=> Cached(w)))
    /\ [][/\ schemas \subseteq schemas'
          /\ schemas' # schemas =>
               \E w \in Workers :
                  /\ InTry(w) /\ ~wk[w].schema
                  /\ wk'[w].pc = "try" /\ wk'[w].schema
                  /\ schemas' = schemas \cup {SchemaKey(Path(w))}
          /\ \A w \in Workers :
               (InTry(w) /\ ~wk[w].schema /\ wk'[w].fails > wk[w].fails) =>
                  (schemas' = schemas /\ InTry(w)' /\ ~wk'[w].schema)]_vars

\* ---- the swap of the two maps
\* The places where point p is held: the queue map (0) and the batches the
\* workers have taken out.
InMap(d, p) == \E k \in 1..Len(d) : p \in Range(d[k].items)
Holders(p) ==
    (IF InMap(queue, p) THEN {0} ELSE {})
    \cup {w \in Workers : InMap(wk[w].queue, p)}
\* The cookie at the place of p in the cookie map c that goes with the
\* points map d.
CookieAt(d, c, p) ==
    LET k == CHOOSE k \in 1..Len(d) : p \in Range(d[k].items)
    IN c[k].items[Index(d[k].items, p)]
\* Two maps with the same paths in the same order and lists as long.
Parallel(d, c) ==
    /\ Len(d) = Len(c)
    /\ \A k \in 1..Len(d) :
          d[k].path = c[k].path /\ Len(d[k].items) = Len(c[k].items)

\* C26: the worker takes both maps in one step and leaves both empty; every
\* appended point is in the queue map or in the batch of exactly one
\* worker, never in two places, and in none only after the batch that held
\* it was written; and when every call gave as many cookies as points, the
\* two maps, in the queue and in every batch, have the same paths with
\* lists of equal length and each point has its own cookie at its place.
C26_AtomicSwap ==
    /\ [](\A p \in Ids :
            /\ Cardinality(Holders(p)) <= 1
            /\ Holders(p) = {} => Delivered(p))
    /\ [](AllPaired =>
            /\ Parallel(queue, cookie_queue)
            /\ \A w \in Workers : Parallel(wk[w].queue, wk[w].cookies)
            /\ \A p \in Ids :
                  /\ InMap(queue, p) =>
                        CookieAt(queue, cookie_queue, p) = hist[p].cookie
                  /\ \A w \in Workers : InMap(wk[w].queue, p) =>
                        CookieAt(wk[w].queue, wk[w].cookies, p) = hist[p].cookie)
    /\ [][\A w \in Workers :
            (wk[w].pc = "swap" /\ wk'[w].pc = "path") =>
               /\ wk'[w].queue = queue /\ wk'[w].cookies = cookie_queue
               /\ queue' = <<>> /\ cookie_queue' = <<>>]_vars

\* A worker is writing a batch with point 1 and its cookie while point 2,
\* appended to the same path since the swap, waits in the new queue map.
C26_Witness ==
    /\ Len(hist) = 2
    /\ AllPaired
    /\ hist[1].cookie # None /\ hist[2].cookie # None
    /\ hist[1].path = hist[2].path
    /\ InMap(queue, 2)
    /\ \E w \in Workers : wk[w].pc = "try" /\ InMap(wk[w].queue, 1)

\* ---- the lock and the worker's I/O
\* Worker w is outside its critical section: at the loop test, in the
\* throttling sleep, in get_schema / write_points or the 30 s sleep of a
\* retry, or in the callbacks.
Outside(w) == wk[w].pc \in {"loop", "loop_running", "swap", "path", "try", "cb"}
Blocked(w) == wk[w].pc \in {"try", "cb"}
\* A producer's call completes in this step.
Appends == ncalls' = ncalls + 1

\* C27: a worker that sleeps, calls get_schema or write_points, waits for a
\* retry or runs the callbacks does not hold the lock, and whoever holds it
\* is inside the critical section; so while a worker is blocked on the
\* server the lock is free for append and append_list, and what they
\* append then goes into the new queue map and leaves the batch of the
\* worker as it is.
C27_IOOutsideLock ==
    /\ [](\A w \in Workers :
            /\ Outside(w) => queue_cond # w
            /\ queue_cond = w => wk[w].pc = "locked")
    /\ []((\E w \in Workers : Blocked(w)) =>
            (queue_cond = None \/ wk[queue_cond].pc = "locked"))
    /\ [][Appends =>
            /\ \A w \in Workers : wk'[w] = wk[w]
            /\ \A p \in (Len(hist) + 1)..Len(hist') : InMap(queue', p)]_vars

\* A batch with point 1 is in its retry after a failed attempt, the lock
\* is free, and point 2, appended since the swap, is in the new queue map.
C27_Witness ==
    /\ queue_cond = None
    /\ InMap(queue, 2)
    /\ \E w \in Workers :
          wk[w].pc = "try" /\ wk[w].fails >= 1 /\ InMap(wk[w].queue, 1)

\* ---- a connection that fails while it is opened
\* The last operation called connect() and Connection() raised after
\* create_connection had returned a socket: the TLS wrap failed, or
\* AUTHENTICATE was answered with a status, another token or nothing.
ConnectFailed ==
    /\ LastIsOp
    /\ last.opened
    /\ last.used = None
    /\ last.out \in {"tls", "status", "proto", "closed"}

\* C28: when opening the connection failed after the socket was created,
\* that socket (the last one created) is closed when the error reaches the
\* caller, and the Client holds no connection.
C28_FailedConnectReleases ==
    ConnectFailed => (conn = None /\ nsock \notin socks)

\* ---- progress of the write loop
\* The points still to send after the first k entries of the log.
Remaining(k) ==
    LET sent == {j \in 1..k : IsChunk(wp.log[j])}
    IN IF sent = {} THEN wp.K
       ELSE LET j == CHOOSE j \in sent : \A i \in sent : i <= j
            IN wp.K - (wp.log[j].index + wp.log[j].n)

\* The server has answered everything so far with DT_READY_FOR_CHUNK.
Acknowledging ==
    \A k \in 1..Len(wp.log) : wp.log[k].dir = "rx" => wp.log[k].frame = "READY"

\* C29: whatever max_data_len the server advertised, while it acknowledges
\* every chunk, every chunk frame sent leaves fewer points to send than
\* there were before it, so that at most K chunk frames go out before
\* DT_END.
C29_WriteProgress ==
    (wp.K >= 1 /\ Acknowledging) =>
        /\ \A k \in 1..Len(wp.log) :
              IsChunk(wp.log[k]) => Remaining(k) < Remaining(k - 1)
        /\ Len(ChunkFrames) <= wp.K

\* ---- after the end of a stream
\* C30: a call of read_chunk on an object whose last call returned None
\* returns None again and reads nothing from the connection.
C30_EndIsStable ==
    [][(/\ stream.outs # <<>>
        /\ StreamOut = "end"
        /\ Len(stream'.outs) = Len(stream.outs) + 1)
       => (StreamOut' = "end" /\ stream'.pos = stream.pos)]_vars

\* ---- retries of a write
\* The chunk frames of one attempt, and the points (from 0) they carry.
ChunksOf(log) == SelectSeq(log, IsChunk)
Carries(e, p) == e.index <= p /\ p < e.index + e.n
\* An attempt whose first chunk was acknowledged and which failed later.
FailedAfterAck(log) ==
    \E k \in 1..(Len(log) - 1) :
        IsChunk(log[k]) /\ log[k].n >= 1 /\ log[k + 1] = Rx("READY")
\* The chunk frames of an attempt begin at the first point of the list and
\* follow one another without a gap or an overlap.
FromFirstPoint(log) ==
    LET c == ChunksOf(log) IN
    \A j \in 1..Len(c) :
        c[j].index = IF j = 1 THEN 0 ELSE c[j - 1].index + c[j - 1].n

\* C31: every attempt of the worker at a list, the first one and each
\* retry after a failure, is a new transaction (command prefix first)
\* whose chunks start at the first point of the list, whatever the
\* attempts before it had sent and had acknowledged; and the transaction
\* that succeeds carries every point of the list in exactly one chunk.
C31_RetryRestarts ==
    wp.K >= 1 =>
        /\ \A a \in 1..Len(wp.past) :
              /\ wp.past[a] # <<>> => wp.past[a][1] = Tx("PREFIX", 0, 0)
              /\ FromFirstPoint(wp.past[a])
        /\ wp.log # <<>> => wp.log[1] = Tx("PREFIX", 0, 0)
        /\ FromFirstPoint(wp.log)
        /\ (wp.pc = "done" /\ wp.out = "ok") =>
              \A p \in 0..(wp.K - 1) :
                 Cardinality({j \in 1..Len(ChunkFrames) :
                                 Carries(ChunkFrames[j], p)}) = 1

\* A first attempt failed after its first chunk had been acknowledged, and
\* the retry went through: the points of that chunk reached the server
\* twice.
C31_Witness ==
    /\ wp.K = WordBits + 1
    /\ Len(wp.past) = 1
    /\ FailedAfterAck(wp.past[1])
    /\ wp.pc = "done" /\ wp.out = "ok"
    /\ Len(ChunkFrames) = 2
    /\ Carries(ChunkFrames[1], 0) /\ Carries(ChunksOf(wp.past[1])[1], 0)

====
